---- MODULE Spec2Model ----
(***************************************************************************)
(* Model of LinkedInJobsService (src/src/services/linked-in-job.service.ts)*)
(* : the run over queries and result pages (init, getJobs), the per-listing*)
(* apply subroutine (applyForJob) with its screening rules and its wizard  *)
(* stepping loop, closeApply, and the applied-jobs ledger with its file    *)
(* (writeAppliedJobs).                                                     *)
(*                                                                         *)
(* The browser driver is the environment: every awaited driver call either *)
(* resolves or rejects, and what the page shows (listings, details, the    *)
(* progress meter) is chosen by the environment.  Calls the code does not  *)
(* await (writeAppliedJobs, closeApply(true) at three places, page.goto)   *)
(* stay in flight and settle at any later moment.                          *)
(***************************************************************************)
EXTENDS Integers, Sequences, FiniteSets

VARIABLES
    pc,            \* position of the awaited sequence init -> getJobs -> applyForJob
    appliedJobs,   \* this.appliedJobs, the in-memory ledger
    store,         \* content of the file at APPLIED_JOBS_PATH
    writes,        \* fs.writeFile calls in flight: the serialized lists being written
    closes,        \* closeApply(true) calls started without await and not yet settled
    navs,          \* page.goto calls started without await and not yet settled
    writeFailed,   \* a fs.writeFile of the ledger has rejected (history)
    queries,       \* the argument of init
    page,          \* the page counter of init
    qi,            \* index of the query getJobs is working on
    jobs,          \* number of listings loadJobs returned for the current pass
    ji,            \* index of the listing the for loop of getJobs is working on
    listings,      \* listings opened so far in the run
    passes,        \* calls of getJobs so far in the run (history)
    jobDetails,    \* what loadJobDetails returned for the current listing
    script,        \* aria-valuenow values the meter of this wizard will still yield
    porcentNumber, \* the stepping loop's last parsed reading
    hist,          \* what happened to the current listing (history, reset per listing)
    fin,           \* screening inputs (the screening function on its own)
    fout           \* screening result for fin

vars == << pc, appliedJobs, store, writes, closes, navs, writeFailed, queries, page,
           qi, jobs, ji, listings, passes, jobDetails, script, porcentNumber,
           hist, fin, fout >>

runVars == << pc, appliedJobs, store, writes, closes, navs, writeFailed, queries, page,
              qi, jobs, ji, listings, passes, jobDetails, script, porcentNumber,
              hist >>

-----------------------------------------------------------------------------
(* Bounds of the model *)

MaxQueries == 2     \* queries handed to init
MaxListings == 2    \* listings the environment shows over the whole run
MaxJobPages == 1    \* passes over result pages in which listings are shown
MaxReads == 3       \* readings the progress meter yields for one wizard
MaxFlight == 2      \* un-awaited calls in flight at the same time
MaxKeywords == 2    \* entries of descriptionKeywords
MaxLoopReads == 8   \* readings the meter is asked for in the stepping loop on its own
MaxText == 2        \* characters of a description

(* Program constant: `page < 5` in the paging loop of init *)
MaxPage == 5

-----------------------------------------------------------------------------
(* Strings.  Titles and companies are compared for equality only and are  *)
(* TLA+ strings; descriptions and keywords are searched, so they are      *)
(* sequences of one-character strings.                                    *)

Undefined == "undefined"             \* a field whose element was not found
UndefinedText == << "undefined" >>   \* the same for a searched text
UndefinedList == << UndefinedText >> \* an option that is not given

Truthy(s) == s # Undefined /\ s # ""
TruthyText(t) == t # UndefinedText /\ t # << >>

LowerChar(c) ==
    CASE c = "A" -> "a"
      [] c = "B" -> "b"
      [] c = "N" -> "n"
      [] OTHER -> c

toLocaleLowerCase(t) == [i \in 1..Len(t) |-> LowerChar(t[i])]

includes(hay, needle) ==
    \E i \in 0..(Len(hay) - Len(needle)) :
        SubSeq(hay, i + 1, i + Len(needle)) = needle

(* Array.prototype.includes on a list of companies *)
listIncludes(list, x) == \E i \in 1..Len(list) : list[i] = x

(* parseInt on a string of decimal digits: the digits' value in base 10 *)
RECURSIVE parseDigits(_)
parseDigits(s) ==
    IF Len(s) = 0 THEN 0
    ELSE 10 * parseDigits(SubSeq(s, 1, Len(s) - 1)) + s[Len(s)]

parseInt(s) == parseDigits(s)

-----------------------------------------------------------------------------
(* Screening: applyForJob from the details it loaded down to the click on *)
(* the apply control.  The rules are the four early returns of the code,  *)
(* in the order the code tests them.                                      *)

(* this.appliedJobs.find(...) of the already-applied test: the indexes of *)
(* the records with the same title and the same company                   *)
findApplied(ledger, d) ==
    { i \in 1..Len(ledger) :
        ledger[i].title = d.title /\ ledger[i].company = d.company }

(* descriptionKeywords.some(keyword => description lower-cased includes   *)
(* keyword lower-cased)                                                   *)
someKeyword(keywords, description) ==
    \E k \in 1..Len(keywords) :
        includes(toLocaleLowerCase(description), toLocaleLowerCase(keywords[k]))

detailsIncomplete(d) ==
    \/ ~Truthy(d.title)
    \/ ~Truthy(d.company)
    \/ ~TruthyText(d.description)

alreadyApplied(ledger, d) ==
    /\ Len(ledger) > 0
    /\ findApplied(ledger, d) # {}

blackListed(options, d) ==
    /\ Truthy(d.company)
    /\ listIncludes(options.blackListCompanies, d.company)

keywordMismatch(options, d) ==
    /\ TruthyText(d.description)
    /\ options.descriptionKeywords # UndefinedList
    /\ ~someKeyword(options.descriptionKeywords, d.description)

(* Mutant of screening: the blacklist is tested before the ledger *)
screeningBlacklistFirst(d, ledger, options) ==
    IF detailsIncomplete(d) THEN "incomplete-details"
    ELSE IF blackListed(options, d) THEN "blacklisted"
    ELSE IF alreadyApplied(ledger, d) THEN "already-applied"
    ELSE IF keywordMismatch(options, d) THEN "keyword-mismatch"
    ELSE "accept"

(* The outcome of the screening part of applyForJob: the early return it  *)
(* takes, or "accept" when it goes on to click the apply control          *)
screening(d, ledger, options) ==
    IF detailsIncomplete(d) THEN "incomplete-details"
    ELSE IF alreadyApplied(ledger, d) THEN "already-applied"
    ELSE IF blackListed(options, d) THEN "blacklisted"
    ELSE IF keywordMismatch(options, d) THEN "keyword-mismatch"
    ELSE "accept"

(* The options getJobs hands to applyForJob for a query *)
applyOptions(q) ==
    [ blackListCompanies |->
          IF q.blackListCompanies = << Undefined >> THEN << >>
          ELSE q.blackListCompanies,
      descriptionKeywords |-> q.descriptionKeywords ]

-----------------------------------------------------------------------------
(* Inputs of the screening function on its own *)

Chars == { "a", "A", "b" }

RECURSIVE TextsUpTo(_)
TextsUpTo(n) ==
    IF n = 0 THEN { << >> }
    ELSE LET shorter == TextsUpTo(n - 1)
         IN  shorter \cup { Append(t, c) : t \in shorter, c \in Chars }

Texts == TextsUpTo(MaxText)

RECURSIVE ListsUpTo(_, _)
ListsUpTo(S, n) ==
    IF n = 0 THEN { << >> }
    ELSE LET shorter == ListsUpTo(S, n - 1)
         IN  shorter \cup { Append(l, x) : l \in shorter, x \in S }

Keywords == { << >>, << "a" >>, << "B" >>, << "a", "b" >> }
KeywordLists == ListsUpTo(Keywords, MaxKeywords) \cup { UndefinedList }

Titles == { "API Dev" }
Companies == { "Acme", "Toro" }

AppliedJob(t, c, ok) == [ title |-> t, company |-> c, appliedSuccessfully |-> ok ]

FilterDetails ==
    [ title : Titles \cup { Undefined, "" },
      company : Companies \cup { Undefined, "" },
      description : Texts \cup { UndefinedText } ]

FilterLedgers ==
    { << >>,
      << AppliedJob("API Dev", "Acme", FALSE) >>,
      << AppliedJob("API Dev", "Toro", TRUE) >>,
      << AppliedJob("Other", "Acme", TRUE), AppliedJob("API Dev", "Acme", TRUE) >>,
      << AppliedJob("API Dev", "Other", FALSE) >> }

FilterOptions ==
    [ blackListCompanies : { << >>, << "Toro" >>, << "Other", "Acme" >> },
      descriptionKeywords : KeywordLists ]

NoInput == [ details |-> [ title |-> Undefined, company |-> Undefined,
                           description |-> UndefinedText ],
             ledger |-> << >>,
             options |-> [ blackListCompanies |-> << >>,
                           descriptionKeywords |-> UndefinedList ] ]

-----------------------------------------------------------------------------
(* The run: what the environment may show *)

(* aria-valuenow of the progress meter: a string of decimal digits, or no *)
(* value (null or the empty string, both falsy in `if (porcentValue)`)    *)
NoValue == << >>
Readings == { NoValue, << 0 >>, << 5, 0 >>, << 1, 0, 0 >> }
(* Mutant of TruthyValue: the number is tested, so that "0" is falsy *)
TruthyNumber(v) == v # NoValue /\ v # << 0 >>

TruthyValue(v) == v # NoValue

RECURSIVE ReadingsUpTo(_)
ReadingsUpTo(n) ==
    IF n = 0 THEN { << >> }
    ELSE LET shorter == ReadingsUpTo(n - 1)
         IN  shorter \cup { Append(r, v) : r \in shorter, v \in Readings }

(* A wizard's meter yields MaxReads values; a shorter run of readings is  *)
(* one where a driver call rejects earlier                                *)
Scripts == { r \in ReadingsUpTo(MaxReads) : Len(r) = MaxReads }

Text(a, b) == << a, b >>

(* What loadJobDetails may extract for a listing *)
RunDetails ==
    { [ title |-> "API Dev", company |-> "Acme", description |-> Text("a", "b") ],
      [ title |-> "API Dev", company |-> "Acme", description |-> Text("b", "b") ],
      [ title |-> "API Dev", company |-> "Toro", description |-> Text("A", "b") ],
      [ title |-> Undefined, company |-> "Acme", description |-> Text("a", "b") ] }

NoDetails == [ title |-> Undefined, company |-> Undefined, description |-> UndefinedText ]

(* The options of a query that applyForJob reads *)
RunOptions ==
    { [ blackListCompanies |-> << "Toro" >>, descriptionKeywords |-> << << "a" >> >> ] }

(* init is handed MaxQueries queries *)
QueryLists == { q \in ListsUpTo(RunOptions, MaxQueries) : Len(q) = MaxQueries }

StartLedgers == { << >>, << AppliedJob("API Dev", "Acme", FALSE) >> }

NotRead == << -1 >>  \* in place of a reading that was not taken

(* What happened to the current listing: history kept to state properties *)
NoHist ==
    [ end |-> "none",        \* how applyForJob ended for the listing
      first |-> NotRead,     \* the reading taken before the resume selection
      resume |-> "none",     \* resume selection: "none", "selected" or "failed"
      written |-> << >>,     \* appliedSuccessfully of each record written for it
      closeCalls |-> << >>,  \* `confirm` of each closeApply call made for it
      reads |-> 0,           \* readings taken in the stepping loop
      clicks |-> 0,          \* clicks of the advance control in the stepping loop
      prev |-> NotRead,      \* the stepping loop's reading with a value before `last`
      last |-> NotRead,      \* the stepping loop's latest reading with a value
      saw100 |-> FALSE ]     \* a stepping-loop reading was 100

-----------------------------------------------------------------------------
(* Building blocks of the actions *)

(* The bound on the un-awaited calls in flight: a step that starts one    *)
(* more of a kind waits until there is room for it                        *)
Flight == Cardinality(writes) + closes + navs
RoomToWrite == Flight < MaxFlight
RoomToClose == Flight < MaxFlight
RoomToGoto == Flight < MaxFlight
RoomToWriteAndClose == Flight + 1 < MaxFlight

(* Mutant of writeAppliedJobs: unshift in place of push *)
writeUnshift(appliedJob) ==
    /\ appliedJobs' = << appliedJob >> \o appliedJobs
    /\ writes' = writes \cup { << appliedJob >> \o appliedJobs }

(* Mutant of writeAppliedJobs: the file is written, the push is missing *)
writeWithoutPush(appliedJob) ==
    /\ UNCHANGED appliedJobs
    /\ writes' = writes \cup { Append(appliedJobs, appliedJob) }

(* writeAppliedJobs up to its await: push, then start fs.writeFile with   *)
(* the list serialized at that moment.  No caller awaits the promise.     *)
writeAppliedJobs(appliedJob) ==
    /\ appliedJobs' = Append(appliedJobs, appliedJob)
    /\ writes' = writes \cup { Append(appliedJobs, appliedJob) }

Record(ok) == AppliedJob(jobDetails.title, jobDetails.company, ok)

(* applyForJob is left, by return or by throw: its locals are gone, and   *)
(* with them the two readings the history keeps for the stepping loop     *)
Leave(h) ==
    /\ pc' = "jobEnd"
    /\ hist' = [ h EXCEPT !.prev = NotRead, !.last = NotRead ]
    /\ script' = << >>
    /\ porcentNumber' = 0

(* The catch of getJobs around applyForJob: log, closeApply(true) without *)
(* await, and the for loop goes on                                        *)
ListingCatch(h) ==
    /\ RoomToClose
    /\ closes' = closes + 1
    /\ Leave([ h EXCEPT !.end = "error", !.closeCalls = Append(@, TRUE) ])

(* A rejection nobody handles ends the process (Node 15 and later) or is  *)
(* only reported (earlier versions, or --unhandled-rejections=warn).      *)
(* When the process ends, what it held in memory is gone.                 *)
Crash ==
    /\ pc' = "crashed"
    /\ appliedJobs' = << >>
    /\ writes' = {}
    /\ closes' = 0
    /\ navs' = 0
    /\ queries' = << >>
    /\ page' = 1
    /\ qi' = 1
    /\ jobs' = 0
    /\ ji' = 1
    /\ listings' = 0
    /\ passes' = 0
    /\ jobDetails' = NoDetails
    /\ script' = << >>
    /\ porcentNumber' = 0
    /\ hist' = NoHist

Running == pc \notin { "crashed" }

flightVars == << writes, closes, navs, writeFailed >>
loopVars == << queries, page, qi, jobs, ji, listings, passes >>
wizardVars == << jobDetails, script, porcentNumber >>
filterVars == << fin, fout >>

-----------------------------------------------------------------------------
(* init, lines 74-98 *)

(* The service as constructed: `appliedJobs = []`, nothing started *)
Constructed ==
    /\ pc = "init"
    /\ appliedJobs = << >>
    /\ writes = {}
    /\ closes = 0
    /\ navs = 0
    /\ writeFailed = FALSE
    /\ page = 1
    /\ qi = 1
    /\ jobs = 0
    /\ ji = 1
    /\ listings = 0
    /\ passes = 0
    /\ jobDetails = NoDetails
    /\ script = << >>
    /\ porcentNumber = 0
    /\ hist = NoHist

RunInit ==
    /\ Constructed
    /\ store \in StartLedgers
    /\ queries \in QueryLists

FilterIdle ==
    /\ fin = NoInput
    /\ fout = "none"

Init == RunInit /\ FilterIdle

(* fs.readFile and JSON.parse of the ledger file; either may throw, and   *)
(* then init rejects before any query                                     *)
LoadLedger ==
    /\ pc = "init"
    /\ \/ /\ appliedJobs' = store
          /\ pc' = "query"
          /\ passes' = passes + 1
       \/ /\ pc' = "rejected"
          /\ UNCHANGED << appliedJobs, passes >>
    /\ UNCHANGED << store, flightVars, queries, page, qi, jobs, ji, listings,
                    wizardVars, hist, filterVars >>

(* Mutant of NextPage: `page <= 5` as the condition of the while *)
NextPageInclusive ==
    /\ pc = "nextPage"
    /\ \/ /\ pc' = "done"
          /\ UNCHANGED << page, passes >>
       \/ /\ page' = page + 1
          /\ pc' = "done"
          /\ UNCHANGED passes
       \/ /\ page' = page + 1
          /\ pc' = IF page + 1 <= MaxPage THEN "query" ELSE "done"
          /\ passes' = IF page + 1 <= MaxPage THEN passes + 1 ELSE passes
    /\ qi' = 1
    /\ UNCHANGED << appliedJobs, store, flightVars, queries, jobs, ji, listings,
                    wizardVars, hist, filterVars >>

(* Mutant of NextPage: no try around the lookup and the click *)
NextPageUncaught ==
    /\ pc = "nextPage"
    /\ \/ /\ pc' \in { "done", "rejected" }
          /\ UNCHANGED << page, passes >>
       \/ /\ page' = page + 1
          /\ pc' = "rejected"
          /\ UNCHANGED passes
       \/ /\ page' = page + 1
          /\ pc' = IF page + 1 < MaxPage THEN "query" ELSE "done"
          /\ passes' = IF page + 1 < MaxPage THEN passes + 1 ELSE passes
    /\ qi' = 1
    /\ UNCHANGED << appliedJobs, store, flightVars, queries, jobs, ji, listings,
                    wizardVars, hist, filterVars >>

(* The try block after getJobs: look the next-page control up, click it,  *)
(* wait for the container; then the `while (nextPageBtn && page < 5)`     *)
NextPage ==
    /\ pc = "nextPage"
    /\ \/ \* page.$ rejects (catch, break), or there is no control (the
          \* while condition is false)
          /\ pc' = "done"
          /\ UNCHANGED << page, passes >>
       \/ \* control found, click or waitForSelector rejects: catch, break
          /\ page' = page + 1
          /\ pc' = "done"
          /\ UNCHANGED passes
       \/ \* control found and clicked, container there again
          /\ page' = page + 1
          /\ pc' = IF page + 1 < MaxPage THEN "query" ELSE "done"
          /\ passes' = IF page + 1 < MaxPage THEN passes + 1 ELSE passes
    /\ qi' = 1
    /\ UNCHANGED << appliedJobs, store, flightVars, queries, jobs, ji, listings,
                    wizardVars, hist, filterVars >>

-----------------------------------------------------------------------------
(* getJobs, lines 100-146 *)

(* Head of `for (const query of queries)`; for a query, page.goto is      *)
(* called and not awaited                                                 *)
OpenQuery ==
    /\ pc = "query"
    /\ IF qi > Len(queries)
         THEN /\ pc' = "nextPage"
              /\ UNCHANGED navs
         ELSE /\ RoomToGoto
              /\ navs' = navs + 1
              /\ pc' = "container"
    /\ UNCHANGED << appliedJobs, store, writes, closes, writeFailed, loopVars,
                    wizardVars, hist, filterVars >>

(* waitForSelector(container), page.$, the scroll and loadJobs; a         *)
(* rejection of any of them is caught by the catch of the query           *)
LoadJobs ==
    /\ pc = "container"
    /\ \/ /\ jobs' \in 0..(IF page <= MaxJobPages THEN MaxListings - listings ELSE 0)
          /\ ji' = 1
          /\ pc' = "job"
          /\ UNCHANGED qi
       \/ /\ qi' = qi + 1
          /\ pc' = "query"
          /\ UNCHANGED << jobs, ji >>
    /\ UNCHANGED << appliedJobs, store, flightVars, queries, page, listings,
                    passes, wizardVars, hist, filterVars >>

(* Head of `for (const job of jobs)` and the click on the listing that    *)
(* opens applyForJob                                                      *)
OpenJob ==
    /\ pc = "job"
    /\ IF ji > jobs
         THEN /\ qi' = qi + 1
              /\ pc' = "query"
              /\ UNCHANGED << listings, hist, closes, script, porcentNumber >>
         ELSE /\ listings' = listings + 1
              /\ UNCHANGED qi
              /\ \/ /\ pc' = "details"
                    /\ UNCHANGED << hist, closes, script, porcentNumber >>
                 \/ ListingCatch(hist)
    /\ UNCHANGED << appliedJobs, store, writes, navs, writeFailed, queries, page,
                    jobs, ji, passes, jobDetails, filterVars >>

(* applyForJob has returned or thrown: next listing *)
EndJob ==
    /\ pc = "jobEnd"
    /\ ji' = ji + 1
    /\ pc' = "job"
    /\ jobDetails' = NoDetails
    /\ hist' = NoHist
    /\ UNCHANGED << appliedJobs, store, flightVars, queries, page, qi, jobs,
                    listings, passes, script, porcentNumber, filterVars >>

-----------------------------------------------------------------------------
(* applyForJob, lines 215-381 *)

(* What no step of applyForJob changes *)
outerVars == << store, navs, writeFailed, loopVars, filterVars >>

(* Mutant of LoadJobDetails: a listing that is skipped is recorded *)
LoadJobDetailsRecordsSkip ==
    /\ pc = "details"
    /\ \/ \E d \in RunDetails :
            LET outcome == screening(d, appliedJobs, applyOptions(queries[qi]))
            IN  /\ jobDetails' = d
                /\ IF outcome = "accept"
                     THEN /\ pc' = "apply"
                          /\ UNCHANGED << hist, script, porcentNumber,
                                          appliedJobs, writes >>
                     ELSE /\ RoomToWrite
                          /\ writeAppliedJobs(AppliedJob(d.title, d.company, FALSE))
                          /\ Leave([ hist EXCEPT !.end = outcome ])
                /\ UNCHANGED closes
       \/ /\ ListingCatch(hist)
          /\ UNCHANGED << jobDetails, appliedJobs, writes >>
    /\ UNCHANGED outerVars

(* loadJobDetails, then the screening down to the first await after it *)
LoadJobDetails ==
    /\ pc = "details"
    /\ \/ \E d \in RunDetails :
            LET outcome == screening(d, appliedJobs, applyOptions(queries[qi]))
            IN  /\ jobDetails' = d
                /\ IF outcome = "accept"
                     THEN /\ pc' = "apply"
                          /\ UNCHANGED << hist, script, porcentNumber >>
                     ELSE Leave([ hist EXCEPT !.end = outcome ])
                /\ UNCHANGED closes
       \/ /\ ListingCatch(hist)
          /\ UNCHANGED jobDetails
    /\ UNCHANGED << appliedJobs, writes, outerVars >>

(* page.click(jobApply) in its own try: a rejection means "already        *)
(* applied" and applyForJob returns                                       *)
ClickApply ==
    /\ pc = "apply"
    /\ \/ /\ pc' = "enter"
          /\ UNCHANGED << hist, script, porcentNumber >>
       \/ Leave([ hist EXCEPT !.end = "AlreadyApplied" ])
    /\ UNCHANGED << appliedJobs, writes, closes, jobDetails, outerVars >>

(* waitForSelector and click of the wizard's primary button; from here on *)
(* the meter of this wizard yields the values of `script`, one per read   *)
EnterWizard ==
    /\ pc = "enter"
    /\ \/ /\ script' \in Scripts
          /\ pc' = "firstRead"
          /\ UNCHANGED << hist, closes, porcentNumber >>
       \/ ListingCatch(hist)
    /\ UNCHANGED << appliedJobs, writes, jobDetails, outerVars >>

(* The reading before the resume selection, lines 289-309 *)
FirstRead ==
    /\ pc = "firstRead"
    /\ \/ LET porcentValue == Head(script)
              h == [ hist EXCEPT !.first = porcentValue ]
          IN  IF TruthyValue(porcentValue) /\ parseInt(porcentValue) = 0
                THEN /\ RoomToWriteAndClose
                     /\ writeAppliedJobs(Record(FALSE))
                     /\ closes' = closes + 1
                     /\ Leave([ h EXCEPT !.end = "zero-progress",
                                         !.written = Append(@, FALSE),
                                         !.closeCalls = Append(@, TRUE) ])
                ELSE /\ pc' = "resume"
                     /\ hist' = h
                     /\ script' = Tail(script)
                     /\ UNCHANGED << appliedJobs, writes, closes, porcentNumber >>
       \/ /\ ListingCatch(hist)
          /\ UNCHANGED << appliedJobs, writes >>
    /\ UNCHANGED << jobDetails, outerVars >>

(* The try around the resume selection, lines 311-325; its catch writes a *)
(* record and calls closeApply(true), and the method goes on to line 327  *)
SelectResume ==
    /\ pc = "resume"
    /\ \/ /\ hist' = [ hist EXCEPT !.resume = "selected" ]
          /\ UNCHANGED << appliedJobs, writes, closes >>
       \/ /\ RoomToWriteAndClose
          /\ writeAppliedJobs(Record(FALSE))
          /\ closes' = closes + 1
          /\ hist' = [ hist EXCEPT !.resume = "failed",
                                   !.written = Append(@, FALSE),
                                   !.closeCalls = Append(@, TRUE) ]
    /\ porcentNumber' = 0
    /\ pc' = "read"
    /\ UNCHANGED << jobDetails, script, outerVars >>

(* Mutant of stuck: `<` in place of `===` *)
stuckOnDecrease(value, last) == value # 0 /\ value < last

(* Mutant of stuck: the test for a non-zero value is missing *)
stuckAlsoAtZero(value, last) == value = last

(* The stuck test of the stepping loop, line 346 *)
stuck(value, last) == value # 0 /\ value = last

(* Top of the do-while: read the meter, lines 329-360 *)
ReadProgress ==
    /\ pc = "read"
    /\ \/ /\ script # << >>
          /\ LET porcentValue == Head(script)
                 seen == [ hist EXCEPT !.reads = @ + 1 ]
                 h == IF TruthyValue(porcentValue)
                        THEN [ seen EXCEPT
                                 !.prev = hist.last,
                                 !.last = porcentValue,
                                 !.saw100 = @ \/ parseInt(porcentValue) = 100 ]
                        ELSE seen
             IN  /\ script' = Tail(script)
                 /\ IF TruthyValue(porcentValue)
                      THEN IF stuck(parseInt(porcentValue), porcentNumber)
                             THEN /\ RoomToWrite
                                  /\ writeAppliedJobs(Record(FALSE))
                                  /\ hist' = [ h EXCEPT !.written = Append(@, FALSE),
                                                        !.closeCalls = Append(@, TRUE) ]
                                  /\ pc' = "stuckClose"
                                  /\ UNCHANGED porcentNumber
                             ELSE /\ porcentNumber' = parseInt(porcentValue)
                                  /\ hist' = h
                                  /\ pc' = "advance"
                                  /\ UNCHANGED << appliedJobs, writes >>
                      ELSE /\ hist' = h
                           /\ pc' = "advance"
                           /\ UNCHANGED << appliedJobs, writes, porcentNumber >>
                 /\ UNCHANGED closes
       \/ /\ ListingCatch(hist)
          /\ UNCHANGED << appliedJobs, writes >>
    /\ UNCHANGED << jobDetails, outerVars >>

(* What follows the loop, lines 367-380 *)
AfterLoop(h, how) ==
    IF porcentNumber = 100
      THEN /\ RoomToWrite
           /\ writeAppliedJobs(Record(TRUE))
           /\ hist' = [ h EXCEPT !.written = Append(@, TRUE),
                                 !.closeCalls = Append(@, FALSE) ]
           /\ pc' = "doneClose"
           /\ UNCHANGED << script, porcentNumber >>
      ELSE /\ Leave([ h EXCEPT !.end = how ])
           /\ UNCHANGED << appliedJobs, writes >>

(* The awaited closeApply(true) of the stuck branch, then `break` *)
StuckClose ==
    /\ pc = "stuckClose"
    /\ \/ /\ AfterLoop(hist, "stuck")
          /\ UNCHANGED closes
       \/ /\ ListingCatch(hist)
          /\ UNCHANGED << appliedJobs, writes >>
    /\ UNCHANGED << jobDetails, outerVars >>

(* Bottom of the do-while: the advance click and `while (porcentNumber <  *)
(* 100)`, lines 362-365                                                   *)
Advance ==
    /\ pc = "advance"
    /\ \/ LET h == [ hist EXCEPT !.clicks = @ + 1 ]
          IN  /\ IF porcentNumber < 100
                   THEN /\ hist' = h
                        /\ pc' = "read"
                        /\ UNCHANGED << appliedJobs, writes, script, porcentNumber >>
                   ELSE AfterLoop(h, "left")
              /\ UNCHANGED closes
       \/ /\ ListingCatch(hist)
          /\ UNCHANGED << appliedJobs, writes >>
    /\ UNCHANGED << jobDetails, outerVars >>

(* The awaited closeApply() after the record of a completed application *)
DoneClose ==
    /\ pc = "doneClose"
    /\ \/ /\ Leave([ hist EXCEPT !.end = "completed" ])
          /\ UNCHANGED closes
       \/ ListingCatch(hist)
    /\ UNCHANGED << appliedJobs, writes, jobDetails, outerVars >>

-----------------------------------------------------------------------------
(* Promises nobody awaits *)

(* fs.writeFile of writeAppliedJobs, line 395, resolves: the file holds   *)
(* the list that call serialized                                          *)
WriteDone ==
    /\ Running
    /\ \E w \in writes :
         /\ store' = w
         /\ writes' = writes \ { w }
    /\ UNCHANGED << pc, appliedJobs, closes, navs, writeFailed, loopVars,
                    wizardVars, hist, filterVars >>

(* ... or rejects: the promise of writeAppliedJobs rejects, and nobody    *)
(* holds it                                                               *)
WriteFailed ==
    /\ Running
    /\ writeFailed' = TRUE
    /\ \/ /\ \E w \in writes : writes' = writes \ { w }
          /\ UNCHANGED << pc, appliedJobs, closes, navs, loopVars, wizardVars, hist >>
       \/ /\ writes # {}
          /\ Crash
    /\ UNCHANGED << store, filterVars >>

(* A closeApply(true) called without await (lines 139, 306, 324) settles *)
CloseDone ==
    /\ Running
    /\ closes > 0
    /\ closes' = closes - 1
    /\ UNCHANGED << pc, appliedJobs, store, writes, navs, writeFailed, loopVars,
                    wizardVars, hist, filterVars >>

CloseFailed ==
    /\ Running
    /\ closes > 0
    /\ \/ /\ closes' = closes - 1
          /\ UNCHANGED << pc, appliedJobs, writes, navs, loopVars, wizardVars, hist >>
       \/ Crash
    /\ UNCHANGED << store, writeFailed, filterVars >>

(* The page.goto of line 110 settles *)
GotoDone ==
    /\ Running
    /\ navs > 0
    /\ navs' = navs - 1
    /\ UNCHANGED << pc, appliedJobs, store, writes, closes, writeFailed, loopVars,
                    wizardVars, hist, filterVars >>

GotoFailed ==
    /\ Running
    /\ navs > 0
    /\ \/ /\ navs' = navs - 1
          /\ UNCHANGED << pc, appliedJobs, writes, closes, loopVars, wizardVars, hist >>
       \/ Crash
    /\ UNCHANGED << store, writeFailed, filterVars >>

-----------------------------------------------------------------------------
Next ==
    \/ LoadLedger
    \/ NextPage
    \/ OpenQuery
    \/ LoadJobs
    \/ OpenJob
    \/ EndJob
    \/ LoadJobDetails
    \/ ClickApply
    \/ EnterWizard
    \/ FirstRead
    \/ SelectResume
    \/ ReadProgress
    \/ StuckClose
    \/ Advance
    \/ DoneClose
    \/ WriteDone
    \/ WriteFailed
    \/ CloseDone
    \/ CloseFailed
    \/ GotoDone
    \/ GotoFailed

Spec == Init /\ [][Next]_vars

-----------------------------------------------------------------------------
(* The screening function on its own: every input of FilterInputs *)

FilterInputs ==
    [ details : FilterDetails, ledger : FilterLedgers, options : FilterOptions ]

FilterInit ==
    /\ Constructed
    /\ store = << >>
    /\ queries = << >>
    /\ fin \in FilterInputs
    /\ fout = "none"

Screen ==
    /\ fout = "none"
    /\ fout' = screening(fin.details, fin.ledger, fin.options)
    /\ UNCHANGED << fin, runVars >>

FilterNext == Screen

FilterSpec == FilterInit /\ [][FilterNext]_vars

-----------------------------------------------------------------------------
(* The stepping loop on its own, lines 327-380: the meter is read as long *)
(* as the loop asks for it, each value an integer from 1 to 100 that is   *)
(* not below the one before                                               *)

LoopReadings == { << 1 >>, << 2, 0 >>, << 5, 5 >>, << 9, 9 >>, << 1, 0, 0 >> }

(* The reading taken last for the listing, the one of line 293 included *)
LatestReading == IF hist.last # NotRead THEN hist.last ELSE hist.first

(* applyForJob at line 327: listing accepted, apply clicked, wizard       *)
(* entered, first reading taken, resume selected                          *)
LoopInit ==
    /\ pc = "read"
    /\ store = << >>
    /\ appliedJobs = << >>
    /\ writes = {}
    /\ closes = 0
    /\ navs = 0
    /\ writeFailed = FALSE
    /\ queries \in QueryLists
    /\ page = 1
    /\ qi = 1
    /\ jobs = 1
    /\ ji = 1
    /\ listings = 1
    /\ passes = 1
    /\ jobDetails = [ title |-> "API Dev", company |-> "Acme",
                      description |-> Text("a", "b") ]
    /\ script = << >>
    /\ porcentNumber = 0
    /\ \E v \in LoopReadings :
           hist = [ NoHist EXCEPT !.first = v, !.resume = "selected" ]
    /\ FilterIdle

(* The meter has its next value when waitForSelector of line 329 resolves *)
MeterShows ==
    /\ pc = "read"
    /\ script = << >>
    /\ hist.reads < MaxLoopReads
    /\ \E v \in LoopReadings :
          /\ parseInt(v) >= parseInt(LatestReading)
          /\ script' = << v >>
    /\ UNCHANGED << pc, appliedJobs, store, flightVars, loopVars, jobDetails,
                    porcentNumber, hist, filterVars >>

(* The awaited sequence of the loop *)
LoopStep ==
    \/ MeterShows
    \/ ReadProgress
    \/ Advance
    \/ StuckClose
    \/ DoneClose

LoopNext ==
    \/ MeterShows
    \/ ReadProgress
    \/ Advance
    \/ StuckClose
    \/ DoneClose
    \/ WriteDone

(* An awaited driver call settles: the sequence is not suspended forever *)
LoopSpec == LoopInit /\ [][LoopNext]_vars /\ WF_vars(LoopStep)

-----------------------------------------------------------------------------
(* Properties *)

Range(f) == { f[i] : i \in DOMAIN f }

SamePair(a, b) == a.title = b.title /\ a.company = b.company

(* C1: a ledger that was loaded without two records of the same (title,   *)
(* company) never holds two such records: a listing is applied to at most *)
(* once.  (Every ledger of StartLedgers is free of duplicates.)           *)
C1_LedgerUnique ==
    \A i, j \in 1..Len(appliedJobs) :
        SamePair(appliedJobs[i], appliedJobs[j]) => i = j

(* C2: one execution of applyForJob on an accepted listing appends one    *)
(* record when it ends completed, stuck (zero progress or a repeated      *)
(* reading) or with no resume available, none when the apply control      *)
(* could not be clicked, and never two or more.                           *)
C2_OneRecordPerListing ==
    pc = "jobEnd" =>
        /\ Len(hist.written) <= 1
        /\ hist.end \in { "completed", "stuck", "zero-progress" }
               => Len(hist.written) = 1
        /\ hist.resume = "failed" => Len(hist.written) = 1
        /\ hist.end = "AlreadyApplied" => Len(hist.written) = 0

(* C3: when the resume selection fails, a record with                     *)
(* appliedSuccessfully = false is written, closeApply(true) is called,    *)
(* and the stepping loop is not entered: no reading is taken and the      *)
(* advance control is not clicked for that listing afterwards.            *)
C3_NoSteppingAfterNoResume ==
    hist.resume = "failed" =>
        /\ hist.written = << FALSE >>
        /\ hist.closeCalls[1] = TRUE
        /\ hist.reads = 0
        /\ hist.clicks = 0

(* The rules of the screening as the specification words them *)
RuleIncomplete(d) ==
    \/ d.title \in { Undefined, "" }
    \/ d.company \in { Undefined, "" }
    \/ d.description \in { UndefinedText, << >> }

RuleAlreadyApplied(d, ledger) == \E r \in Range(ledger) : SamePair(r, d)

RuleBlacklisted(d, options) == d.company \in Range(options.blackListCompanies)

RuleKeywordMismatch(d, options) ==
    /\ options.descriptionKeywords # UndefinedList
    /\ options.descriptionKeywords # << >>
    /\ \A k \in Range(options.descriptionKeywords) :
           ~includes(toLocaleLowerCase(d.description), toLocaleLowerCase(k))

FirstRule(d, ledger, options) ==
    CASE RuleIncomplete(d) -> "incomplete-details"
      [] ~RuleIncomplete(d) /\ RuleAlreadyApplied(d, ledger) -> "already-applied"
      [] ~RuleIncomplete(d) /\ ~RuleAlreadyApplied(d, ledger)
           /\ RuleBlacklisted(d, options) -> "blacklisted"
      [] ~RuleIncomplete(d) /\ ~RuleAlreadyApplied(d, ledger)
           /\ ~RuleBlacklisted(d, options)
           /\ RuleKeywordMismatch(d, options) -> "keyword-mismatch"
      [] OTHER -> "none"

(* C4: the screening takes the first rule that matches, in the order      *)
(* incomplete details, already applied, blacklisted, keyword mismatch; it *)
(* accepts only if no rule matches; a listing whose (title, company) is   *)
(* in the ledger is skipped as already applied whatever the record says.  *)
C4_FirstMatchWins ==
    fout # "none" =>
        LET first == FirstRule(fin.details, fin.ledger, fin.options)
        IN  /\ first # "none" => fout = first
            /\ fout = "accept" => first = "none"
            /\ ( ~RuleIncomplete(fin.details)
                 /\ RuleAlreadyApplied(fin.details, fin.ledger) )
                   => fout = "already-applied"

C4_Witness ==
    /\ fout = "already-applied"
    /\ RuleBlacklisted(fin.details, fin.options)
    /\ RuleKeywordMismatch(fin.details, fin.options)
    /\ \E r \in Range(fin.ledger) : SamePair(r, fin.details) /\ r.appliedSuccessfully

(* C5: the keyword rule skips a listing only when descriptionKeywords is  *)
(* a non-empty list and none of its entries is a case-insensitive         *)
(* substring of the description; an absent or empty list never skips.     *)
C5_KeywordRule ==
    fout = "keyword-mismatch" => RuleKeywordMismatch(fin.details, fin.options)

(* The meter of the end-to-end scenario: 0, 50, 100; with MaxReads above  *)
(* three, any continuation of it                                          *)
Meter0_50_100 == << << 0 >>, << 5, 0 >>, << 1, 0, 0 >> >>
ScenarioMeter == Len(script) >= 3 /\ SubSeq(script, 1, 3) = Meter0_50_100

(* The step that takes the first reading of the meter, without failure   *)
(* of the browser                                                         *)
FirstReadTaken == hist.first = NotRead /\ hist'.first # NotRead

(* C6 as claimed: an accepted listing whose meter reads 0, 50, 100 ends   *)
(* with one new record, and the record has appliedSuccessfully = true.    *)
C6_ScenarioRecordsSuccess ==
    [][ ( pc = "firstRead" /\ ScenarioMeter /\ FirstReadTaken
          /\ pc' = "jobEnd" )
        => hist'.written = << TRUE >> ]_vars

(* C6 as amended: for an accepted listing whose meter reads 0, 50, 100    *)
(* the first reading ends the listing: one new record is appended for it, *)
(* and the record has appliedSuccessfully = false.                        *)
C6_ScenarioRecordsFailure ==
    [][ ( pc = "firstRead" /\ ScenarioMeter /\ FirstReadTaken )
        => /\ pc' = "jobEnd"
           /\ hist'.written = << FALSE >>
           /\ appliedJobs' = Append(appliedJobs,
                  AppliedJob(jobDetails.title, jobDetails.company, FALSE)) ]_vars

C6_Witness ==
    /\ pc = "jobEnd"
    /\ hist.first = << 0 >>
    /\ hist.end = "zero-progress"
    /\ hist.written = << FALSE >>
    /\ listings = 2

(* C7: a first reading of exactly 0 ends the listing as stuck with zero   *)
(* progress: one record with appliedSuccessfully = false is appended,     *)
(* closeApply(true) is called, and neither the resume selection nor the   *)
(* stepping loop is attempted.                                            *)
C7_ZeroProgress ==
    ( hist.first # NotRead /\ hist.first # NoValue /\ parseDigits(hist.first) = 0 ) =>
        /\ pc = "jobEnd"
        /\ hist.end = "zero-progress"
        /\ hist.written = << FALSE >>
        /\ Len(appliedJobs) > 0
        /\ appliedJobs[Len(appliedJobs)]
             = AppliedJob(jobDetails.title, jobDetails.company, FALSE)
        /\ hist.closeCalls = << TRUE >>
        /\ hist.resume = "none"
        /\ hist.reads = 0
        /\ hist.clicks = 0

C7_Witness ==
    /\ hist.first = << 0 >>
    /\ pc = "jobEnd"
    /\ appliedJobs = << AppliedJob("API Dev", "Acme", FALSE) >>

(* The latest two stepping-loop readings are the same non-zero percentage *)
Repeated ==
    /\ hist.last # NotRead
    /\ hist.prev # NotRead
    /\ parseDigits(hist.last) # 0
    /\ parseDigits(hist.last) = parseDigits(hist.prev)

(* C8: the stepping loop judges the wizard stuck exactly when a reading   *)
(* is non-zero and equal to the stepping-loop reading before it; it then  *)
(* appends one record with appliedSuccessfully = false, calls             *)
(* closeApply(true) and clicks the advance control no more.               *)
C8_StuckOnRepeat ==
    /\ pc = "stuckClose" =>
          /\ Repeated
          /\ Len(hist.written) > 0
          /\ hist.written[Len(hist.written)] = FALSE
          /\ Len(appliedJobs) > 0
          /\ appliedJobs[Len(appliedJobs)]
               = AppliedJob(jobDetails.title, jobDetails.company, FALSE)
          /\ hist.closeCalls[Len(hist.closeCalls)] = TRUE
    /\ pc \in { "advance", "read" } => ~Repeated
    /\ ( pc = "stuckClose" \/ hist.end = "stuck" ) => hist.clicks = hist.reads - 1

C8_Witness ==
    /\ pc = "stuckClose"
    /\ hist.prev = << 5, 0 >>
    /\ hist.last = << 5, 0 >>
    /\ hist.resume = "selected"
    /\ hist.reads = 2

(* C9: a record with appliedSuccessfully = true is appended for a listing *)
(* if and only if a stepping-loop reading of exactly 100 was taken; it is *)
(* then the only record written for the listing, the listing ends         *)
(* completed and the wizard is closed by closeApply() without             *)
(* confirmation.                                                          *)
C9_SuccessOnlyAt100 ==
    /\ TRUE \in Range(hist.written) =>
          /\ hist.saw100
          /\ hist.written = << TRUE >>
          /\ hist.end # "error" => hist.closeCalls = << FALSE >>
    /\ ( pc = "jobEnd" /\ hist.saw100 /\ hist.end # "error" ) =>
          /\ hist.end = "completed"
          /\ TRUE \in Range(hist.written)

(* C10: a failed write of the ledger file ends the run: once a write has  *)
(* failed, no further listing, page or query is processed.                *)
C10_WriteFailureStopsRun ==
    [][ ( writeFailed /\ pc' # "crashed" )
        => ( listings' = listings /\ qi' = qi /\ page' = page ) ]_vars

IsPrefix(s, t) == Len(s) <= Len(t) /\ SubSeq(t, 1, Len(s)) = s

(* C11: the in-memory ledger is append-only while the process runs: each  *)
(* step leaves the list before it a prefix of the list after it; the only *)
(* step that is not an append of one record is the load, which is taken   *)
(* once, from the constructed state, before any query is opened.          *)
C11_AppendOnly ==
    [][ pc' # "crashed" =>
          /\ IsPrefix(appliedJobs, appliedJobs')
          /\ appliedJobs' # appliedJobs =>
                \/ /\ pc = "init"
                   /\ appliedJobs = << >>
                   /\ appliedJobs' = store
                   /\ passes = 0 /\ navs = 0 /\ listings = 0
                \/ /\ pc # "init"
                   /\ Len(appliedJobs') = Len(appliedJobs) + 1
          /\ pc' = "init" => pc = "init" ]_vars

C11_Witness ==
    /\ pc \notin { "init", "crashed" }
    /\ Len(appliedJobs) = 2
    /\ appliedJobs[1] = AppliedJob("API Dev", "Acme", FALSE)

SkipReasons ==
    { "incomplete-details", "already-applied", "blacklisted", "keyword-mismatch" }

(* C12: the step that skips a listing (for incomplete details, a ledger   *)
(* entry, a blacklisted company or no keyword) is taken before the apply  *)
(* control is clicked and changes neither the in-memory ledger, nor the   *)
(* writes in flight, nor the file; nothing was read, clicked, written or  *)
(* closed for the listing.                                                *)
C12_SkipChangesNothing ==
    [][ ( hist.end = "none" /\ hist'.end \in SkipReasons ) =>
          /\ pc = "details"
          /\ appliedJobs' = appliedJobs
          /\ writes' = writes
          /\ store' = store
          /\ closes' = closes
          /\ hist' = [ NoHist EXCEPT !.end = hist'.end ] ]_vars

C12_Witness ==
    /\ pc = "jobEnd"
    /\ hist.end = "blacklisted"
    /\ appliedJobs = << AppliedJob("API Dev", "Acme", FALSE) >>
    /\ store = appliedJobs
    /\ writes = {}

(* C13: the page counter starts at 1, never decreases, never exceeds 5,   *)
(* and at most 5 passes (calls of getJobs) are made in a run.             *)
C13_PagingBounded ==
    [][ pc' # "crashed" =>
          /\ page >= 1
          /\ page' >= page
          /\ page' <= 5
          /\ passes' <= 5 ]_vars

C13_Witness ==
    /\ pc = "done"
    /\ page = 5
    /\ passes = 4

(* C14: when the next-page control is absent, or its lookup or its click  *)
(* fails, init ends normally: it does not reject, and no pass follows;    *)
(* the passes made are as many as the page the paging stopped after.      *)
C14_PagingStopsQuietly ==
    [][ /\ ( pc = "nextPage" /\ pc' \notin { "nextPage", "crashed" } ) =>
              /\ pc' \in { "query", "done" }
              /\ passes = page
              /\ pc' = "done" => passes' = passes
        /\ ( pc = "done" /\ pc' # "crashed" ) =>
              /\ pc' = "done"
              /\ passes' = passes
              /\ page' = page ]_vars

C14_Witness ==
    /\ pc = "done"
    /\ page = 3
    /\ passes = 3

(* C15: a failure of the navigation or of the results container for one   *)
(* query ends that query's pass only: the step goes on to the next query  *)
(* without opening a listing, and the process and init do not end by it.  *)
C15_QueryFailureLocal ==
    [][ /\ ( pc = "container" /\ pc' = "query" ) =>
              ( qi' = qi + 1 /\ listings' = listings )
        /\ pc = "container" => pc' # "rejected"
        /\ GotoFailed => pc' \notin { "crashed", "rejected" } ]_vars

(* C16: when applyForJob ends in the catch of the listing, no record has  *)
(* been written for the listing.  (Stated for listings whose resume       *)
(* selection did not fail.)                                               *)
C16_NoRecordOnError ==
    ( hist.end = "error" /\ hist.resume # "failed" ) => hist.written = << >>

(* C17: after the first pass, that is after a click of the next-page      *)
(* control, no navigation to a search URL is started.                     *)
C17_NoNavigationAfterPaging ==
    [][ ( passes >= 2 /\ pc' # "crashed" ) => navs' <= navs ]_vars

(* C18: when the for loop goes from a listing that ended in the catch to  *)
(* the next listing, no closeApply(true) is still in progress.            *)
C18_CloseBeforeNextListing ==
    [][ ( pc = "jobEnd" /\ hist.end = "error" /\ ji < jobs /\ pc' = "job" )
        => closes = 0 ]_vars

(* The awaited sequence is suspended in an operation of its own *)
Awaiting ==
    pc \in { "init", "container", "details", "apply", "enter", "firstRead",
             "resume", "read", "advance", "stuckClose", "doneClose", "nextPage" }

(* C19: at most one asynchronous operation of the engine is in flight:    *)
(* the awaited one, or one that was started without await, never both and *)
(* never two.                                                             *)
C19_OneOperationInFlight ==
    Flight + ( IF Awaiting THEN 1 ELSE 0 ) <= 1

(* C20: when no write is in flight (and none has failed) the file holds   *)
(* the in-memory ledger, and the content of the file never goes back to a *)
(* list that is not an extension of the one it held.                      *)
C20_StoreFollowsLedger ==
    [][ /\ ( writes' = {} /\ ~writeFailed'
             /\ pc' \notin { "init", "rejected", "crashed" } )
              => store' = appliedJobs'
        /\ IsPrefix(store, store') ]_vars

(* The loop is over: applyForJob was left *)
LoopLeft == pc = "jobEnd"

(* What holds of the loop in every state when the readings are integers   *)
(* from 1 to 100 that never decrease                                      *)
LoopSafe ==
    /\ hist.clicks <= Cardinality(LoopReadings)
    /\ hist.reads <= Cardinality(LoopReadings)
    /\ ( LoopLeft /\ hist.end # "error" ) =>
          /\ hist.end \in { "stuck", "completed" }
          /\ hist.end = "stuck" => ~hist.saw100 /\ hist.written = << FALSE >>
          /\ hist.end = "completed" => hist.saw100 /\ hist.written = << TRUE >>

(* C21: with readings that are integers from 1 to 100 and never decrease, *)
(* and no driver call that fails or hangs, the stepping loop ends after a *)
(* bounded number of advance clicks, as stuck or as completed, and has no *)
(* other way out.                                                         *)
C21_LoopTerminates ==
    /\ []LoopSafe
    /\ [](hist.end # "error") => <>LoopLeft

C21_Witness ==
    /\ LoopLeft
    /\ hist.end = "completed"
    /\ hist.reads = 5
    /\ hist.clicks = 5
    /\ hist.first = << 1 >>

====
